---- MODULE Spec2Model ----
(***************************************************************************)
(* The real-time event fan-out of notify_server (src/notify_server/src/    *)
(* sse.rs): the registry `state.users` (user id -> broadcast::Sender), the *)
(* per-user tokio broadcast channels, the sse_handler that attaches a      *)
(* connection to a channel, and the stream built on the receiver           *)
(* (BroadcastStream -> filter_map(ok) -> map(frame) -> Sse keep_alive).    *)
(***************************************************************************)
EXTENDS Integers, Sequences, FiniteSets, TLC

\* ---------------------------------------------------------------- bounds
\* Capacity handed to broadcast::channel.  The source constant is 256
\* (sse.rs:14); the channel's behaviour is parametric in it, and the model
\* runs it scaled down so that a receiver can fall behind it.
CHANNEL_CAPACITY == 2
\* Number of client connections (sse_handler invocations) in a run.
NumConns == 2
\* Number of publish calls in a run.
MaxPublish == 3
\* Number of keep-alive ticks emitted in a run.
MaxBeats == 1
\* Number of connections made by clients that come back, in a run with reconnects.
MaxReopen == 1

\* ------------------------------------------------------------- constants
UserIds == {42, 7}
Conns == 1..NumConns
NoChannel == 0

\* AppEvent variants (the enum's tags, sse.rs:54-58).
AppEventTags ==
    {"AppEvent::NewChat", "AppEvent::AddToChat", "AppEvent::UpdateChatName",
     "AppEvent::RemoveFromChat", "AppEvent::NewMessage"}

VARIABLES
    users,      \* state.users: user id -> index of the channel whose Sender it holds
    chans,      \* every broadcast channel created so far (sequence of channel records)
    pc,         \* per connection: position of its sse_handler / stream
    user,       \* per connection: user.id of the authenticated user
    rx,         \* per connection: the Receiver (channel index and next position)
    frames,     \* per connection: the frames its stream has produced
    lagged,     \* per connection: its receiver has reported RecvError::Lagged
    attachedAt, \* per connection: number of publish calls made before rx was created
    pubLog,     \* every publish call so far: target user, event, channel found
    beats,      \* keep-alive ticks emitted so far
    resumed,    \* per connection: Lagged was reported and no event frame emitted since
    late,       \* per connection: it subscribed when its user had no open stream left
    reopens,    \* connections made by clients that came back
    chats,      \* chat_server: the rows of the chats table, by id
    chatOp      \* chat_server: the last create_chat / update_chat call and its result

\* The variables of notify_server and those of chat_server.
sseVars ==
    <<users, chans, pc, user, rx, frames, lagged, attachedAt, pubLog, beats,
      resumed, late, reopens>>
chatVars == <<chats, chatOp>>

vars == <<sseVars, chatVars>>

\* --------------------------------------------------- broadcast channel
\* broadcast::channel(CHANNEL_CAPACITY): an empty ring, one Sender, one Receiver.
NewChannel(u) ==
    [buf |-> <<>>, pos |-> 0, rxCnt |-> 1, closed |-> FALSE, owner |-> u]

\* Position of the oldest value the ring still retains.
Oldest(ch) == ch.pos - Len(ch.buf)

\* Push on a queue that grows without overwriting.
PushUnbounded(buf, e) == Append(buf, e)

\* The ring after one more value: the oldest one is overwritten when full.
Push(buf, e) ==
    IF Len(buf) < CHANNEL_CAPACITY THEN Append(buf, e) ELSE Append(Tail(buf), e)

SendUnlessFull(ch, e) ==
    IF ch.rxCnt = 0 \/ Len(ch.buf) = CHANNEL_CAPACITY THEN ch
    ELSE [ch EXCEPT !.buf = Append(ch.buf, e), !.pos = ch.pos + 1]

\* Sender::send: Err (value not stored) when there is no receiver, otherwise
\* the value takes the tail slot; it never waits for a receiver.
Send(ch, e) ==
    IF ch.rxCnt = 0 THEN ch
    ELSE [ch EXCEPT !.buf = Push(ch.buf, e), !.pos = ch.pos + 1]

SubscribeAtOldest(ch) == ch.pos - Len(ch.buf)

\* Sender::subscribe: a new Receiver positioned at the tail.
SubscribePos(ch) == ch.pos

ValueAtNewest(ch, n) == ch.buf[Len(ch.buf)]

\* The value Receiver::recv yields at position n (n is retained).
ValueAt(ch, n) == ch.buf[n - Oldest(ch) + 1]

\* ------------------------------------------------------------- frames
EventNameSwapped(tag) ==
    CASE tag = "AppEvent::NewChat" -> "NewChat"
      [] tag = "AppEvent::AddToChat" -> "RemoveFromChat"
      [] tag = "AppEvent::UpdateChatName" -> "UpdateChatName"
      [] tag = "AppEvent::RemoveFromChat" -> "AddToChat"
      [] tag = "AppEvent::NewMessage" -> "NewMessage"

\* The match of sse.rs:53-59.
EventName(tag) ==
    CASE tag = "AppEvent::NewChat" -> "NewChat"
      [] tag = "AppEvent::AddToChat" -> "AddToChat"
      [] tag = "AppEvent::UpdateChatName" -> "UpdateChatName"
      [] tag = "AppEvent::RemoveFromChat" -> "RemoveFromChat"
      [] tag = "AppEvent::NewMessage" -> "NewMessage"

\* serde_json::to_string(&v): the text of the event, here its variant and the
\* id of the snapshot it carries.
Serialize(e) == <<e.tag, e.id>>

\* Event::default().data(v).event(name)
EventFrame(e) == [kind |-> "event", event |-> EventName(e.tag), data |-> Serialize(e)]

KeepAliveLabelled ==
    [kind |-> "comment", event |-> "NewMessage", data |-> "keep-alive-text"]

\* KeepAlive::new().text("keep-alive-text"): a comment line, no event field.
KeepAliveFrame == [kind |-> "comment", event |-> "", data |-> "keep-alive-text"]

\* ---------------------------------------------------------------- Init
Init ==
    /\ users = [u \in UserIds |-> NoChannel]
    /\ chans = <<>>
    /\ pc = [c \in Conns |-> "idle"]
    /\ user = [c \in Conns |-> 0]
    /\ rx = [c \in Conns |-> [chan |-> NoChannel, next |-> 0]]
    /\ frames = [c \in Conns |-> <<>>]
    /\ lagged = [c \in Conns |-> FALSE]
    /\ attachedAt = [c \in Conns |-> 0]
    /\ pubLog = <<>>
    /\ beats = 0
    /\ resumed = [c \in Conns |-> FALSE]
    /\ late = [c \in Conns |-> FALSE]
    /\ reopens = 0
    /\ chats = <<>>
    /\ chatOp = [op |-> "none"]

\* --------------------------------------------------------- sse_handler
\* Connections are accepted in the order of their numbers (they are
\* interchangeable, so this loses no behaviour); their handlers then run
\* concurrently.
Accepted(c) == \A d \in Conns : d < c => pc[d] # "idle"

\* No stream of user u is open: whoever subscribed for u has disconnected
\* or had its stream ended.
NoOpenStream(u) == \A d \in Conns : ~(pc[d] = "stream" /\ user[d] = u)

\* GetSome taking whichever Sender the map holds, not the one under user_id.
GetSomeAnyKey(c, u) ==
    /\ pc[c] = "idle"
    /\ Accepted(c)
    /\ \E v \in UserIds : users[v] # NoChannel
    /\ LET k == users[CHOOSE v \in UserIds : users[v] # NoChannel] IN
       /\ rx' = [rx EXCEPT ![c] = [chan |-> k, next |-> SubscribePos(chans[k])]]
       /\ chans' = [chans EXCEPT ![k].rxCnt = @ + 1]
       /\ late' = [late EXCEPT ![c] = NoOpenStream(u)]
    /\ user' = [user EXCEPT ![c] = u]
    /\ attachedAt' = [attachedAt EXCEPT ![c] = Len(pubLog)]
    /\ pc' = [pc EXCEPT ![c] = "stream"]
    /\ UNCHANGED <<users, frames, lagged, pubLog, beats, resumed, reopens, chatVars>>

\* sse.rs:43-44: users.get(&user_id) finds the Sender and subscribes to it
\* (the map's read guard is held across the subscribe).
GetSome(c, u) ==
    /\ pc[c] = "idle"
    /\ Accepted(c)
    /\ users[u] # NoChannel
    /\ user' = [user EXCEPT ![c] = u]
    /\ rx' = [rx EXCEPT ![c] = [chan |-> users[u], next |-> SubscribePos(chans[users[u]])]]
    /\ chans' = [chans EXCEPT ![users[u]].rxCnt = @ + 1]
    /\ attachedAt' = [attachedAt EXCEPT ![c] = Len(pubLog)]
    /\ late' = [late EXCEPT ![c] = NoOpenStream(u)]
    /\ pc' = [pc EXCEPT ![c] = "stream"]
    /\ UNCHANGED <<users, frames, lagged, pubLog, beats, resumed, reopens, chatVars>>

\* sse.rs:43,45: users.get(&user_id) finds nothing; the handler goes on to the
\* else branch holding no lock on the map.
GetNone(c, u) ==
    /\ pc[c] = "idle"
    /\ Accepted(c)
    /\ users[u] = NoChannel
    /\ user' = [user EXCEPT ![c] = u]
    /\ pc' = [pc EXCEPT ![c] = "create"]
    /\ UNCHANGED <<users, chans, rx, frames, lagged, attachedAt, pubLog, beats,
                   resumed, late, reopens, chatVars>>

\* DashMap::insert: the entry is set; a Sender it replaces is dropped, which
\* closes that Sender's channel.
InsertDrop(chs, old) ==
    IF old = NoChannel THEN chs ELSE [chs EXCEPT ![old].closed = TRUE]

\* sse.rs:46-48: broadcast::channel, state.users.insert(user_id, tx), rx.
CreateInsert(c) ==
    /\ pc[c] = "create"
    /\ LET u == user[c]
           id == Len(chans) + 1
       IN /\ chans' = Append(InsertDrop(chans, users[u]), NewChannel(u))
          /\ users' = [users EXCEPT ![u] = id]
          /\ rx' = [rx EXCEPT ![c] = [chan |-> id, next |-> 0]]
    /\ attachedAt' = [attachedAt EXCEPT ![c] = Len(pubLog)]
    /\ pc' = [pc EXCEPT ![c] = "stream"]
    /\ UNCHANGED <<user, frames, lagged, pubLog, beats, resumed, late, reopens, chatVars>>

\* ------------------------------------------------------------- publish
\* publish(user_id, event): the lookup in the registry and the send on the
\* Sender found; nothing at all when the registry has no entry.
Publish(u, tag) ==
    /\ Len(pubLog) < MaxPublish
    /\ LET e == [tag |-> tag, id |-> Len(pubLog) + 1]
       IN /\ pubLog' = Append(pubLog, [to |-> u, ev |-> e, chan |-> users[u]])
          /\ chans' = IF users[u] = NoChannel THEN chans
                      ELSE [chans EXCEPT ![users[u]] = Send(@, e)]
    /\ UNCHANGED <<users, pc, user, rx, frames, lagged, attachedAt, beats,
                   resumed, late, reopens, chatVars>>

\* -------------------------------------------------------------- stream
Chan(c) == chans[rx[c].chan]

\* Receiver::recv finds its position overwritten.
IsLagged(ch, n) == n < Oldest(ch)

ResumePastOldest(ch) == Oldest(ch) + 1

\* Where a lagged Receiver resumes: the oldest value still retained.
ResumePos(ch) == Oldest(ch)

DropRxClosing(ch) == [ch EXCEPT !.rxCnt = @ - 1, !.closed = TRUE]

\* Dropping a Receiver only lowers the receiver count of its channel.
DropRx(ch) == [ch EXCEPT !.rxCnt = @ - 1]

\* RecvLagged turning the Lagged error into a frame of its own.
RecvLaggedGap(c) ==
    /\ pc[c] = "stream"
    /\ IsLagged(Chan(c), rx[c].next)
    /\ rx' = [rx EXCEPT ![c].next = ResumePos(Chan(c))]
    /\ lagged' = [lagged EXCEPT ![c] = TRUE]
    /\ resumed' = [resumed EXCEPT ![c] = TRUE]
    /\ frames' = [frames EXCEPT ![c] =
                     Append(@, [kind |-> "comment", event |-> "", data |-> "lagged"])]
    /\ UNCHANGED <<users, chans, pc, user, attachedAt, pubLog, beats,
                   late, reopens, chatVars>>

\* sse.rs:52: BroadcastStream yields Err(Lagged); filter_map(|v| v.ok())
\* discards it, so no frame is produced and the receiver moves on.
RecvLagged(c) ==
    /\ pc[c] = "stream"
    /\ IsLagged(Chan(c), rx[c].next)
    /\ rx' = [rx EXCEPT ![c].next = ResumePos(Chan(c))]
    /\ lagged' = [lagged EXCEPT ![c] = TRUE]
    /\ resumed' = [resumed EXCEPT ![c] = TRUE]
    /\ UNCHANGED <<users, chans, pc, user, frames, attachedAt, pubLog, beats,
                   late, reopens, chatVars>>

\* sse.rs:52-62: BroadcastStream yields Ok(v); the frame is built from it.
RecvEvent(c) ==
    /\ pc[c] = "stream"
    /\ ~IsLagged(Chan(c), rx[c].next)
    /\ rx[c].next < Chan(c).pos
    /\ frames' = [frames EXCEPT ![c] = Append(@, EventFrame(ValueAt(Chan(c), rx[c].next)))]
    /\ rx' = [rx EXCEPT ![c].next = @ + 1]
    /\ resumed' = [resumed EXCEPT ![c] = FALSE]
    /\ UNCHANGED <<users, chans, pc, user, lagged, attachedAt, pubLog, beats,
                   late, reopens, chatVars>>

\* sse.rs:52: the Sender is gone and nothing is left to read: recv yields
\* Err(Closed), BroadcastStream ends, the response body ends and drops rx.
RecvClosed(c) ==
    /\ pc[c] = "stream"
    /\ rx[c].next = Chan(c).pos
    /\ Chan(c).closed
    /\ pc' = [pc EXCEPT ![c] = "ended"]
    /\ chans' = [chans EXCEPT ![rx[c].chan] = DropRx(@)]
    /\ UNCHANGED <<users, user, rx, frames, lagged, attachedAt, pubLog, beats,
                   resumed, late, reopens, chatVars>>

\* sse.rs:64-68: the keep-alive timer fires while the event stream is pending
\* (Sse polls the event stream first and the timer only when it is pending).
KeepAlive(c) ==
    /\ pc[c] = "stream"
    /\ rx[c].next = Chan(c).pos
    /\ ~Chan(c).closed
    /\ beats < MaxBeats
    /\ beats' = beats + 1
    /\ frames' = [frames EXCEPT ![c] = Append(@, KeepAliveFrame)]
    /\ UNCHANGED <<users, chans, pc, user, rx, lagged, attachedAt, pubLog,
                   resumed, late, reopens, chatVars>>

\* The client closes the connection: the response body, and with it the
\* stream and its Receiver, is dropped.
Disconnect(c) ==
    /\ pc[c] = "stream"
    /\ pc' = [pc EXCEPT ![c] = "closed"]
    /\ chans' = [chans EXCEPT ![rx[c].chan] = DropRx(@)]
    /\ UNCHANGED <<users, user, rx, frames, lagged, attachedAt, pubLog, beats,
                   resumed, late, reopens, chatVars>>

\* ---------------------------------------------------------------- Next
Next ==
    \/ \E c \in Conns, u \in UserIds : GetSome(c, u)
    \/ \E c \in Conns, u \in UserIds : GetNone(c, u)
    \/ \E c \in Conns : CreateInsert(c)
    \/ \E u \in UserIds, tag \in AppEventTags : Publish(u, tag)
    \/ \E c \in Conns : RecvLagged(c)
    \/ \E c \in Conns : RecvEvent(c)
    \/ \E c \in Conns : RecvClosed(c)
    \/ \E c \in Conns : KeepAlive(c)
    \/ \E c \in Conns : Disconnect(c)

Spec == Init /\ [][Next]_vars

\* ------------------------------------------------------- observations
\* Positions of the event frames among the frames of connection c.
EventIdx(c) == {k \in 1..Len(frames[c]) : frames[c][k].kind = "event"}

\* The publish call a frame's payload comes from.
FrameId(f) == f.data[2]

\* The publish calls whose event connection c has emitted a frame for.
Emitted(c) == {FrameId(frames[c][k]) : k \in EventIdx(c)}

\* Number of frames of connection c that carry the event of publish call i.
Copies(c, i) == Cardinality({k \in EventIdx(c) : FrameId(frames[c][k]) = i})

\* The receiver of c has nothing left to read on its channel.
Drained(c) == pc[c] = "stream" /\ rx[c].next = Chan(c).pos

\* The publish calls made for user u.
PublishedTo(u) == {i \in 1..Len(pubLog) : pubLog[i].to = u}

\* ------------------------------------------------------------------ C1
\* C1: two racing first-time subscribes for one user create exactly one
\* channel for that user, and every attached subscription reads from the
\* channel the registry holds for its user.
C1_SingleChannel ==
    /\ \A u \in UserIds :
          Cardinality({k \in 1..Len(chans) : chans[k].owner = u}) <= 1
    /\ \A c \in Conns : pc[c] = "stream" => rx[c].chan = users[user[c]]

\* ------------------------------------------------------------------ C2
\* C2: a subscriber emits the events of its user in publish order, and a
\* subscriber that never lagged has emitted every earlier event published
\* to its user since it attached before it emits a later one.
C2_PublishOrder ==
    \A c \in Conns :
       /\ \A j, k \in EventIdx(c) :
             j < k => FrameId(frames[c][j]) < FrameId(frames[c][k])
       /\ ~lagged[c] =>
             \A k \in EventIdx(c) : \A i \in PublishedTo(user[c]) :
                (attachedAt[c] < i /\ i < FrameId(frames[c][k]))
                   => \E j \in EventIdx(c) : j < k /\ FrameId(frames[c][j]) = i

\* A subscriber has emitted two events of its user, one after the other.
C2_Witness ==
    \E c \in Conns : \E j, k \in EventIdx(c) :
       j < k /\ FrameId(frames[c][j]) < FrameId(frames[c][k])

\* ------------------------------------------------------------------ C3
\* C3: two connections of user 42 are attached, one event is then published
\* to 42, and both have read all their channel offers: each has emitted
\* exactly one frame for the event, with the same payload.
C3_BothReceiveOneCopy ==
    \A c, d \in Conns : \A i \in PublishedTo(42) :
       ( /\ c # d
         /\ user[c] = 42 /\ user[d] = 42
         /\ Drained(c) /\ Drained(d)
         /\ PublishedTo(42) = {i}
         /\ attachedAt[c] < i /\ attachedAt[d] < i )
       => /\ Copies(c, i) = 1 /\ Copies(d, i) = 1
          /\ \A j \in EventIdx(c), k \in EventIdx(d) :
                frames[c][j].data = frames[d][k].data

\* ------------------------------------------------------------------ C4
\* C4: a publish for a user without a registry entry changes neither the
\* registry nor any channel, receiver or stream, and no subscriber ever
\* emits an event published before it attached or published when its user
\* had no channel.
C4_PublishNoChannelNoOp ==
    /\ [](\A c \in Conns : \A i \in Emitted(c) :
             attachedAt[c] < i /\ pubLog[i].chan # NoChannel)
    /\ [][\A u \in UserIds, tag \in AppEventTags :
             (Publish(u, tag) /\ users[u] = NoChannel)
                => UNCHANGED <<users, chans, pc, user, rx, frames>>]_vars

\* A publish found no channel, a connection of that user attached later and
\* has emitted a later event.
C4_Witness ==
    \E c \in Conns : \E i \in PublishedTo(user[c]) :
       /\ pubLog[i].chan = NoChannel
       /\ i <= attachedAt[c]
       /\ Emitted(c) # {}
\* ------------------------------------------------------------------ C5
\* C5: an attached subscriber that never lagged and has read all its
\* channel offers has emitted a frame for every event published to its user
\* since it attached.
C5_DeliversAllSinceAttach ==
    \A c \in Conns :
       (Drained(c) /\ ~lagged[c])
          => \A i \in PublishedTo(user[c]) : attachedAt[c] < i => i \in Emitted(c)

\* ------------------------------------------------------------------ C6
\* C6: a subscriber that fell behind the capacity emits only events that
\* were published to its user after it attached, each unaltered and at most
\* once; and the read it makes while more than the capacity is unread is
\* either the skip signal, which moves it to the oldest retained event and
\* emits nothing, or the oldest retained event itself.
C6_LaggedReadsSound ==
    /\ [](\A c \in Conns : lagged[c] =>
            \A k \in EventIdx(c) :
               LET i == FrameId(frames[c][k])
               IN /\ i \in PublishedTo(user[c])
                  /\ attachedAt[c] < i
                  /\ frames[c][k].data = Serialize(pubLog[i].ev)
                  /\ Copies(c, i) = 1)
    /\ [][\A c \in Conns :
             ( /\ pc[c] = "stream"
               /\ Chan(c).pos - rx[c].next > CHANNEL_CAPACITY
               /\ rx'[c] # rx[c] )
             => \/ /\ frames'[c] = frames[c]
                   /\ lagged'[c]
                   /\ rx'[c].next = Chan(c).pos - CHANNEL_CAPACITY
                \/ frames'[c] = Append(frames[c], EventFrame(Chan(c).buf[1]))]_vars

\* A subscriber was told it lagged and has emitted an event since.
C6_Witness ==
    \E c \in Conns :
       /\ lagged[c]
       /\ \E i \in Emitted(c) : i > attachedAt[c] + 1

\* ------------------------------------------------------------------ C7
\* C7: once a client has closed its connection its stream produces no
\* further frame; the close changes neither the registry nor any other
\* connection's stream, receiver, pending events or channel state (the
\* channel stays open and keeps counting the other receivers); and a
\* publish to the user can still be taken.
C7_DisconnectIsolated ==
    /\ [][\A c \in Conns :
             pc[c] = "closed" => pc'[c] = "closed" /\ frames'[c] = frames[c]]_vars
    /\ [][\A c \in Conns :
             Disconnect(c) =>
                /\ users' = users
                /\ pubLog' = pubLog
                /\ \A d \in Conns \ {c} :
                      /\ pc'[d] = pc[d] /\ rx'[d] = rx[d] /\ frames'[d] = frames[d]
                      /\ pc[d] = "stream" =>
                            LET before == chans[rx[d].chan]
                                after == chans'[rx[d].chan]
                            IN /\ after.buf = before.buf
                               /\ after.pos = before.pos
                               /\ after.closed = before.closed
                               /\ after.rxCnt >= 1]_vars
    /\ [](\A c \in Conns :
             (pc[c] = "closed" /\ Len(pubLog) < MaxPublish)
                => \A tag \in AppEventTags : ENABLED Publish(user[c], tag))

\* A client has closed its connection and another connection on the same
\* channel has since emitted an event the closed one never read.
C7_Witness ==
    \E c, d \in Conns :
       /\ c # d
       /\ pc[c] = "closed" /\ pc[d] = "stream"
       /\ rx[c].chan = rx[d].chan
       /\ ~lagged[c]
       /\ \E i \in Emitted(d) : attachedAt[c] < i /\ i \notin Emitted(c)

\* ------------------------------------------------------------------ C8
\* C8: the registry entry of a user, once set, never changes.
C8_ChannelPersists ==
    [][\A u \in UserIds : users[u] # NoChannel => users'[u] = users[u]]_vars

\* ------------------------------------------------------------------ C9
\* C9: a publish can be taken in every state, whatever any subscriber has
\* left unread, and a publish to a channel with a receiver always stores its
\* event at the tail of the channel.
C9_PublishNeverBlocks ==
    /\ [](\A u \in UserIds :
             Len(pubLog) < MaxPublish
                => ENABLED (\E tag \in AppEventTags : Publish(u, tag)))
    /\ [][\A u \in UserIds, tag \in AppEventTags :
             ( /\ Publish(u, tag)
               /\ users[u] # NoChannel
               /\ chans[users[u]].rxCnt > 0 )
             => LET after == chans'[users[u]]
                IN /\ after.pos = chans[users[u]].pos + 1
                   /\ after.buf[Len(after.buf)] = pubLog'[Len(pubLog')].ev]_vars

\* A publish was stored although a subscriber had a full buffer unread.
C9_Witness ==
    \E c \in Conns :
       pc[c] = "stream" /\ Chan(c).pos - rx[c].next > CHANNEL_CAPACITY

\* ----------------------------------------------------------------- C10
\* The wire labels of the event kinds.
LabelTable ==
    {<<"AppEvent::NewChat", "NewChat">>,
     <<"AppEvent::AddToChat", "AddToChat">>,
     <<"AppEvent::UpdateChatName", "UpdateChatName">>,
     <<"AppEvent::RemoveFromChat", "RemoveFromChat">>,
     <<"AppEvent::NewMessage", "NewMessage">>}

\* C10: the label of every event frame is the one the table gives for the
\* tag of the event that was published.
C10_LabelExact ==
    \A c \in Conns : \A k \in EventIdx(c) :
       <<pubLog[FrameId(frames[c][k])].ev.tag, frames[c][k].event>> \in LabelTable

\* A stream has emitted frames of two different kinds.
C10_Witness ==
    \E c \in Conns : \E j, k \in EventIdx(c) :
       frames[c][j].event = "RemoveFromChat" /\ frames[c][k].event = "NewMessage"

\* ----------------------------------------------------------------- C11
\* C11: on every open stream with no event pending a keep-alive tick can be
\* taken, whether or not anything was published to its user; the tick adds
\* one frame to that stream alone, and every keep-alive frame carries the
\* fixed text and no event label.
C11_Heartbeat ==
    /\ [](\A c \in Conns : \A k \in 1..Len(frames[c]) :
             frames[c][k].kind = "comment"
                => frames[c][k].event = "" /\ frames[c][k].data = "keep-alive-text")
    /\ [](\A c \in Conns :
             ( /\ pc[c] = "stream"
               /\ rx[c].next = Chan(c).pos
               /\ ~Chan(c).closed
               /\ beats < MaxBeats )
             => ENABLED KeepAlive(c))
    /\ [][\A c \in Conns :
             KeepAlive(c) =>
                /\ Len(frames'[c]) = Len(frames[c]) + 1
                /\ frames'[c][Len(frames'[c])].kind = "comment"
                /\ \A d \in Conns \ {c} : frames'[d] = frames[d]]_vars

\* A stream whose user was never published to has emitted a keep-alive frame.
C11_Witness ==
    \E c \in Conns :
       /\ pc[c] = "stream"
       /\ PublishedTo(user[c]) = {}
       /\ \E k \in 1..Len(frames[c]) : frames[c][k].kind = "comment"

\* ------------------------------------------- serialization failure
RecvSerializeFailAbort(c) ==
    /\ pc[c] = "stream"
    /\ ~IsLagged(Chan(c), rx[c].next)
    /\ rx[c].next < Chan(c).pos
    /\ pc' = [d \in Conns |-> IF pc[d] = "stream" THEN "panicked" ELSE pc[d]]
    /\ rx' = [rx EXCEPT ![c].next = @ + 1]
    /\ chans' = [k \in 1..Len(chans) |->
                   [chans[k] EXCEPT !.rxCnt =
                      @ - Cardinality({d \in Conns : pc[d] = "stream" /\ rx[d].chan = k})]]
    /\ UNCHANGED <<users, user, frames, lagged, attachedAt, pubLog, beats,
                   resumed, late, reopens, chatVars>>

\* sse.rs:60: BroadcastStream yields Ok(v) and serde_json::to_string(&v)
\* returns Err: expect panics while the response body is polled; the
\* connection's task unwinds, which drops the stream and its Receiver.  No
\* frame is produced for the event.
RecvSerializeFail(c) ==
    /\ pc[c] = "stream"
    /\ ~IsLagged(Chan(c), rx[c].next)
    /\ rx[c].next < Chan(c).pos
    /\ pc' = [pc EXCEPT ![c] = "panicked"]
    /\ rx' = [rx EXCEPT ![c].next = @ + 1]
    /\ chans' = [chans EXCEPT ![rx[c].chan] = DropRx(@)]
    /\ UNCHANGED <<users, user, frames, lagged, attachedAt, pubLog, beats,
                   resumed, late, reopens, chatVars>>

\* The variants published in the runs with serialization failures (one chat
\* snapshot variant and the message variant: the failure path does not look at
\* the variant).
FailTags == {"AppEvent::NewChat", "AppEvent::NewMessage"}

\* The fan-out when serializing an event can fail.
NextFail ==
    \/ \E c \in Conns, u \in UserIds : GetSome(c, u)
    \/ \E c \in Conns, u \in UserIds : GetNone(c, u)
    \/ \E c \in Conns : CreateInsert(c)
    \/ \E u \in UserIds, tag \in FailTags : Publish(u, tag)
    \/ \E c \in Conns : RecvLagged(c)
    \/ \E c \in Conns : RecvEvent(c)
    \/ \E c \in Conns : RecvSerializeFail(c)
    \/ \E c \in Conns : RecvClosed(c)
    \/ \E c \in Conns : KeepAlive(c)
    \/ \E c \in Conns : Disconnect(c)

SpecFail == Init /\ [][NextFail]_vars

\* ----------------------------------------------------------------- C12
\* A step in which the stream of c alone fails: its receiver is told it
\* lagged, serializing its event panics, or its client closes the connection.
LocalFailure(c) == RecvLagged(c) \/ RecvSerializeFail(c) \/ Disconnect(c)

\* C12: a failure local to one stream (lag, serialization failure,
\* connection loss) changes no registry entry, no other connection's
\* stream, receiver or frames, and nothing of the channel another open
\* stream reads from (its contents stay, it stays open and keeps counting
\* that receiver); and a publish can be taken in every state, failed
\* streams or not.
C12_FailureIsolated ==
    /\ [][\A c \in Conns :
             LocalFailure(c) =>
                /\ users' = users
                /\ pubLog' = pubLog
                /\ \A d \in Conns \ {c} :
                      /\ pc'[d] = pc[d] /\ rx'[d] = rx[d] /\ frames'[d] = frames[d]
                      /\ pc[d] = "stream" =>
                            /\ chans'[rx[d].chan].buf = chans[rx[d].chan].buf
                            /\ chans'[rx[d].chan].pos = chans[rx[d].chan].pos
                            /\ chans'[rx[d].chan].closed = chans[rx[d].chan].closed
                            /\ chans'[rx[d].chan].rxCnt >= 1]_vars
    /\ [](\A u \in UserIds :
             Len(pubLog) < MaxPublish
                => \A tag \in FailTags : ENABLED Publish(u, tag))

\* One stream has panicked and another stream of the same channel, which the
\* registry still holds, has lagged and has emitted events.
C12_Witness ==
    \E c, d \in Conns :
       /\ c # d
       /\ pc[c] = "panicked" /\ pc[d] = "stream"
       /\ rx[c].chan = rx[d].chan
       /\ users[user[d]] = rx[d].chan
       /\ lagged[d]
       /\ Emitted(d) # {}

\* ----------------------------------------------------------------- C14
\* C14: a serialization failure costs one frame only: the stream it happens
\* on stays open (and so goes on producing frames for later events and
\* keep-alive ticks).
C14_StreamSurvivesSerializeFail ==
    [][\A c \in Conns : RecvSerializeFail(c) => pc'[c] = "stream"]_vars

\* ============================================================ chat_server
\* models/chat.rs: create_chat and update_chat over the chats table.

\* Bounds of the chat runs: the longest member list tried, the rows the
\* chats table may hold.
MaxMembers == 9
MaxChats == 1

\* valid_chat_dto: the least member count, and the most without a name.
MinMembers == 2
MaxUnnamedMembers == 8

\* Option<T>: None, Some(x).
None == <<>>
Some(x) == <<x>>

\* The rows of the users table (ids), and an id that is no user's.
ExistingUsers == 1..MaxMembers
NoSuchUser == MaxMembers + 1

\* The member counts tried: those around the two thresholds of valid_chat_dto.
MemberCounts == (0..(MinMembers + 1)) \cup (MaxUnnamedMembers..MaxMembers)

\* The member lists tried: [1..n]; the same with the last entry replaced by
\* an id that is no user's; the same with the last entry repeating the first.
MemberLists ==
    {[k \in 1..n |-> k] : n \in MemberCounts}
    \cup {[k \in 1..n |-> IF k = n THEN NoSuchUser ELSE k] : n \in MemberCounts \ {0}}
    \cup {[k \in 1..n |-> IF k = n THEN 1 ELSE k] : n \in MemberCounts \ {0, 1}}

\* ChatDTO { name, members, public }.
ChatDTO ==
    [name : {None, Some("general")}, members : MemberLists, public : BOOLEAN]

WsIds == {1}

\* fetch_chat_user_by_ids(&input.members): the users whose id is listed,
\* one row per user.
fetch_chat_user_by_ids(ids) ==
    {u \in ExistingUsers : \E k \in 1..Len(ids) : ids[k] = u}

\* valid_chat_dto: Ok, or the message of the ChatDTOError.
valid_chat_dto(input) ==
    LET len == Len(input.members) IN
    IF len < MinMembers
    THEN "Chat must have at least 2 members"
    ELSE IF len > MaxUnnamedMembers /\ input.name = None
    THEN "Group chat with more than 8 members must have a name"
    ELSE IF Cardinality(fetch_chat_user_by_ids(input.members)) # len
    THEN "Some members do not exist"
    ELSE "Ok"

\* get_chat_type with the arms of the public test exchanged.
get_chat_typeSwapped(input) ==
    IF input.name = None /\ Len(input.members) = 2 THEN "Single"
    ELSE IF input.name = None THEN "Group"
    ELSE IF input.public THEN "PrivateChannel" ELSE "PublicChannel"

\* get_chat_type: match (&input.name, &input.members.len()).
get_chat_type(input) ==
    IF input.name = None /\ Len(input.members) = 2 THEN "Single"
    ELSE IF input.name = None THEN "Group"
    ELSE IF input.public THEN "PublicChannel" ELSE "PrivateChannel"

\* create_chat(input, ws_id): validate, then INSERT ... RETURNING the row.
CreateChat(input, ws_id) ==
    /\ LET v == valid_chat_dto(input)
           chat == [id |-> Len(chats) + 1, ws_id |-> ws_id, name |-> input.name,
                    type |-> get_chat_type(input), members |-> input.members]
       IN IF v # "Ok"
          THEN /\ chats' = chats
               /\ chatOp' = [op |-> "create_chat", input |-> input, id |-> 0,
                             result |-> v, chat |-> None]
          ELSE /\ Len(chats) < MaxChats
               /\ chats' = Append(chats, chat)
               /\ chatOp' = [op |-> "create_chat", input |-> input, id |-> 0,
                             result |-> "Ok", chat |-> Some(chat)]
    /\ UNCHANGED sseVars

\* update_chat(id, input): validate, then UPDATE ... WHERE id = $4 RETURNING
\* the row, if there is one (fetch_optional).
UpdateChat(id, input) ==
    /\ LET v == valid_chat_dto(input) IN
       IF v # "Ok"
       THEN /\ chats' = chats
            /\ chatOp' = [op |-> "update_chat", input |-> input, id |-> id,
                          result |-> v, chat |-> None]
       ELSE IF id \in 1..Len(chats)
       THEN /\ chats' = [chats EXCEPT ![id] =
                            [@ EXCEPT !.name = input.name,
                                      !.type = get_chat_type(input),
                                      !.members = input.members]]
            /\ chatOp' = [op |-> "update_chat", input |-> input, id |-> id,
                          result |-> "Ok", chat |-> Some(chats'[id])]
       ELSE /\ chats' = chats
            /\ chatOp' = [op |-> "update_chat", input |-> input, id |-> id,
                          result |-> "Ok", chat |-> None]
    /\ UNCHANGED sseVars

NextChat ==
    \/ \E input \in ChatDTO, ws_id \in WsIds : CreateChat(input, ws_id)
    \/ \E id \in 1..(MaxChats + 1), input \in ChatDTO : UpdateChat(id, input)

SpecChat == Init /\ [][NextChat]_vars

\* The last call was create_chat or update_chat.
Called == chatOp.op \in {"create_chat", "update_chat"}

\* ----------------------------------------------------------------- C13
\* The chat type of an input, by name, member count and public flag.
TypeTable(hasName, count, public) ==
    CASE ~hasName /\ count = 2 -> "Single"
      [] ~hasName /\ count # 2 -> "Group"
      [] hasName /\ public     -> "PublicChannel"
      [] hasName /\ ~public    -> "PrivateChannel"

\* C13: the chat type computed for an input is Single with no name and
\* exactly 2 members, Group with no name and any other member count,
\* PublicChannel with a name and public, PrivateChannel with a name and not
\* public; the row create_chat or update_chat returns carries that type and
\* the chats table holds the row as returned.
C13_ChatType ==
    /\ \A input \in ChatDTO :
          get_chat_type(input)
             = TypeTable(input.name # None, Len(input.members), input.public)
    /\ (Called /\ chatOp.chat # None) =>
          LET chat == chatOp.chat[1] IN
          /\ chat.type = TypeTable(chatOp.input.name # None,
                                   Len(chatOp.input.members), chatOp.input.public)
          /\ chats[chat.id] = chat

\* A private named channel has been stored by update_chat over a row that
\* create_chat stored.
C13_Witness ==
    /\ chatOp.op = "update_chat" /\ chatOp.chat # None
    /\ chatOp.input.name # None /\ ~chatOp.input.public
    /\ chats[chatOp.id].type = "PrivateChannel"

\* ----------------------------------------------------------------- C19
\* Every listed member of the input exists.
AllExist(input) ==
    \A k \in 1..Len(input.members) : input.members[k] \in ExistingUsers

\* C19, rejection: with fewer than 2 members, with more than 8 members and
\* no name, or with a listed member that does not exist, the call returns a
\* ChatDTOError (no chat).
C19_Rejects ==
    Called =>
       LET input == chatOp.input
           len == Len(input.members) IN
       (len < 2 \/ (len > 8 /\ input.name = None) \/ ~AllExist(input))
          => chatOp.result # "Ok" /\ chatOp.chat = None

\* C19, no write: a call that returns a ChatDTOError leaves the chats table
\* as it was.
C19_NoWrite ==
    [][(chatOp'.op \in {"create_chat", "update_chat"} /\ chatOp'.result # "Ok")
          => chats' = chats]_vars

\* The users an input lists.
Listed(input) == {input.members[k] : k \in 1..Len(input.members)}

\* C19: create_chat and update_chat reject, writing nothing, an input with
\* fewer than 2 members, with more than 8 members and no name, or with a
\* listed member that does not exist; an input with 2 to 8 existing members,
\* or with more than 8 existing members and a name, passes validation
\* (2 to 8 members both as entries of the list and as users listed).
C19_Validation ==
    Called =>
       LET input == chatOp.input
           len == Len(input.members)
           n == Cardinality(Listed(input)) IN
       /\ (len < 2 \/ (len > 8 /\ input.name = None) \/ ~AllExist(input))
             => chatOp.result # "Ok" /\ chatOp.chat = None
       /\ ( /\ AllExist(input)
            /\ \/ len \in 2..8 /\ n \in 2..8
               \/ len > 8 /\ n > 8 /\ input.name # None )
             => chatOp.result = "Ok"

\* ----------------------------------------------------------------- C15
\* C15: the step in which a lagging stream is told it missed events adds no
\* frame to any stream and leaves the stream open; the next frame the stream
\* gets after it is the event frame of the oldest event its channel still
\* retains; and every event frame added to a stream is for an event
\* published later than all the events the stream has emitted.
C15_LagSkipsToOldest ==
    [][\A c \in Conns :
          /\ RecvLagged(c) =>
                /\ frames' = frames
                /\ pc'[c] = "stream"
                /\ Chan(c).buf # <<>>
          /\ (resumed[c] /\ frames'[c] # frames[c]) =>
                /\ Len(frames'[c]) = Len(frames[c]) + 1
                /\ frames'[c][Len(frames'[c])] = EventFrame(Chan(c).buf[1])
                /\ \A k \in 1..Len(frames[c]) : frames'[c][k] = frames[c][k]
          /\ (Len(frames'[c]) > Len(frames[c])
                /\ frames'[c][Len(frames'[c])].kind = "event") =>
                \A i \in Emitted(c) : i < FrameId(frames'[c][Len(frames'[c])])
      ]_vars

\* A stream that lagged has since emitted two events, in publish order,
\* and an earlier event published to its user after it attached is missing.
C15_Witness ==
    \E c \in Conns :
       /\ pc[c] = "stream" /\ lagged[c] /\ ~resumed[c]
       /\ Cardinality(Emitted(c)) >= 2
       /\ \E i \in PublishedTo(user[c]) :
             /\ i > attachedAt[c]
             /\ i \notin Emitted(c)
             /\ \A j \in Emitted(c) : i < j

\* ----------------------------------------------------------------- C16
\* The positions of its channel an open stream has not read and can still
\* read (published, not yet overwritten).
Available(c) ==
    {n \in rx[c].next..(Chan(c).pos - 1) : ~IsLagged(Chan(c), n)}

\* C16: every channel retains at most CHANNEL_CAPACITY events, and no open
\* stream has more than CHANNEL_CAPACITY published events it has not read
\* and can still read, however many events were published.
C16_BoundedRetention ==
    /\ \A k \in 1..Len(chans) : Len(chans[k].buf) <= CHANNEL_CAPACITY
    /\ \A c \in Conns :
          pc[c] = "stream" => Cardinality(Available(c)) <= CHANNEL_CAPACITY

\* More than CHANNEL_CAPACITY events were published to an open stream that
\* has read none of them: it can still read exactly CHANNEL_CAPACITY.
C16_Witness ==
    \E c \in Conns :
       /\ pc[c] = "stream"
       /\ Chan(c).pos - rx[c].next > CHANNEL_CAPACITY
       /\ frames[c] = <<>>
       /\ Cardinality(Available(c)) = CHANNEL_CAPACITY

\* ----------------------------------------------------------------- C17
\* C17: every event frame on a stream opened for user U is the frame of an
\* event published to U; a publish to U changes no frame, no receiver and
\* no channel of a stream or registry entry of another user V; and a
\* subscribe for U changes neither V's registry entry nor the channel under
\* it.
C17_RoutedByIdentity ==
    /\ [](\A c \in Conns : \A k \in EventIdx(c) :
             LET i == FrameId(frames[c][k]) IN
             /\ i \in PublishedTo(user[c])
             /\ frames[c][k] = EventFrame(pubLog[i].ev))
    /\ [][\A u \in UserIds :
             (\E tag \in AppEventTags : Publish(u, tag)) =>
                /\ \A d \in Conns :
                      (pc[d] = "stream" /\ user[d] # u) =>
                         /\ frames'[d] = frames[d] /\ rx'[d] = rx[d]
                         /\ chans'[rx[d].chan] = chans[rx[d].chan]
                /\ \A v \in UserIds \ {u} :
                      /\ users'[v] = users[v]
                      /\ users[v] # NoChannel => chans'[users[v]] = chans[users[v]]]_vars
    /\ [][\A c \in Conns, u \in UserIds :
             (GetSome(c, u) \/ GetNone(c, u) \/ (CreateInsert(c) /\ user[c] = u)) =>
                \A v \in UserIds \ {u} :
                   /\ users'[v] = users[v]
                   /\ users[v] # NoChannel => chans'[users[v]] = chans[users[v]]]_vars

\* Events were published to both users while each had an open stream, and
\* each stream has emitted exactly the events of its own user.
C17_Witness ==
    \E c, d \in Conns :
       /\ pc[c] = "stream" /\ pc[d] = "stream"
       /\ user[c] # user[d]
       /\ Emitted(c) # {} /\ Emitted(c) = PublishedTo(user[c])
       /\ Emitted(d) # {} /\ Emitted(d) = PublishedTo(user[d])

\* ============================================================ reconnects
\* The client of a finished connection connects again: a new request, served
\* from scratch (the slot of the finished connection is used again).
Reopen(c) ==
    /\ pc[c] \in {"closed", "ended"}
    /\ reopens < MaxReopen
    /\ reopens' = reopens + 1
    /\ pc' = [pc EXCEPT ![c] = "idle"]
    /\ user' = [user EXCEPT ![c] = 0]
    /\ rx' = [rx EXCEPT ![c] = [chan |-> NoChannel, next |-> 0]]
    /\ frames' = [frames EXCEPT ![c] = <<>>]
    /\ lagged' = [lagged EXCEPT ![c] = FALSE]
    /\ attachedAt' = [attachedAt EXCEPT ![c] = 0]
    /\ resumed' = [resumed EXCEPT ![c] = FALSE]
    /\ late' = [late EXCEPT ![c] = FALSE]
    /\ UNCHANGED <<users, chans, pubLog, beats, chatVars>>

\* The variant published in the runs with reconnects.
ReconnectTags == {"AppEvent::NewMessage"}

\* The fan-out with clients that come back.
NextReconnect ==
    \/ \E c \in Conns, u \in UserIds : GetSome(c, u)
    \/ \E c \in Conns, u \in UserIds : GetNone(c, u)
    \/ \E c \in Conns : CreateInsert(c)
    \/ \E u \in UserIds, tag \in ReconnectTags : Publish(u, tag)
    \/ \E c \in Conns : RecvLagged(c)
    \/ \E c \in Conns : RecvEvent(c)
    \/ \E c \in Conns : RecvClosed(c)
    \/ \E c \in Conns : KeepAlive(c)
    \/ \E c \in Conns : Disconnect(c)
    \/ \E c \in Conns : Reopen(c)

SpecReconnect == Init /\ [][NextReconnect]_vars

\* ----------------------------------------------------------------- C18
\* C18: a subscribe for a user whose subscribers have all disconnected
\* creates no channel and attaches to the channel the registry holds; the
\* stream it opens emits no event published before it attached, and, having
\* never lagged and read all its channel offers, has emitted every event
\* published to its user since it attached.
C18_LateSubscriber ==
    /\ [](\A c \in Conns :
             (late[c] /\ pc[c] \in {"stream", "ended"}) =>
                /\ \A i \in Emitted(c) :
                      i \in PublishedTo(user[c]) /\ attachedAt[c] < i
                /\ (~lagged[c] /\ rx[c].next = Chan(c).pos) =>
                      \A i \in PublishedTo(user[c]) :
                         attachedAt[c] < i => i \in Emitted(c))
    /\ [][\A c \in Conns, u \in UserIds :
             (GetSome(c, u) /\ late'[c]) =>
                /\ Len(chans') = Len(chans)
                /\ users' = users
                /\ rx'[c].chan = users[u]]_vars
====
